---- MODULE Spec2Model ----
(***************************************************************************)
(* A model of the `algebra` crate: the prime field Fp<P>, dense            *)
(* polynomials over it, Lagrange interpolation and the Shamir              *)
(* secret-sharing binary built on top of them.                             *)
(*                                                                         *)
(* Machine integers keep their width.  TLC's integers are 32 bits wide, so *)
(* the u64 of the source is modelled by an unsigned word of WordBits bits  *)
(* and its u128 by a word of twice that width; every modulus P is below    *)
(* 2^WordBits exactly as every P of the source is below 2^64.  An          *)
(* arithmetic overflow of a word does what Rust does: it panics when the   *)
(* build has overflow checks (debug profile) and wraps when it has not     *)
(* (release profile).  A panic is the value Panic, which every operation   *)
(* propagates.                                                             *)
(***************************************************************************)
EXTENDS Integers, Sequences, FiniteSets

VARIABLES
    P,                \* the const generic modulus of Fp<P>
    overflow_checks,  \* build profile: TRUE = overflow panics, FALSE = wraps
    acc,              \* SpecFp: the Fp<P> value the caller holds
    last,             \* SpecFp: the last Fp operation: [op, a, b, r, raw]
    pacc,             \* SpecPoly: the polynomial the caller holds (self)
    popd,             \* SpecPoly: the caller's other polynomial (rhs)
    plast,            \* SpecPoly: the last polynomial operation: [op, form, a, s, r]
    points,           \* SpecLagrange: the (x, y) pairs handed to the interpolation
    interp,           \* SpecLagrange: the polynomial it returned
    lstat,            \* SpecLagrange: "idle" or "done"
    spc,              \* Spec: where the secret-sharing program stands
    secret,           \* Spec: the secret handed to split_secret
    share_threshold,  \* Spec: split_secret's threshold t
    number_of_shares, \* Spec: split_secret's share count n
    poly,             \* Spec: the polynomial of split_secret's loop
    shares,           \* Spec: the shares split_secret returned
    picked,           \* Spec: the shares handed to reconstruct_secret
    recovered         \* Spec: what reconstruct_secret returned

vars == <<P, overflow_checks, acc, last, pacc, popd, plast, points, interp, lstat,
          spc, secret, share_threshold, number_of_shares, poly, shares, picked,
          recovered>>

lagrangeVars == <<points, interp, lstat>>

shamirVars == <<spc, secret, share_threshold, number_of_shares, poly, shares,
                picked, recovered>>

fpVars == <<acc, last>>

polyVars == <<pacc, popd, plast>>

\* ---------------------------------------------------------------- bounds

\* Width in bits of the word that models u64.
WordBits == 6

\* Small moduli are the primes up to this value.
SmallPrimeMax == 10

\* Largest exponent handed to Fp::pow by the caller.
MaxExp == 4

\* The caller builds the second operand of an operation from a u64 up to
\* this value (or from the extremes of the word and of the field).
MaxOperand == 10

\* Polynomials are built from coefficient lists of at most this length.
MaxLen == 3

\* Polynomials are taken over the prime fields up to this modulus.
PolyPrimeMax == 3

\* The interpolation is handed at most this many points of distinct x.
MaxPoints == 3

\* The interpolation is handed at most this many points of any x.
MaxAnyPoints == 2

\* split_secret is asked for at most this many shares.
MaxShares == 3

\* Secrets are shared over the prime fields up to this modulus.
ShamirPrimeMax == 5

\* ------------------------------------------------------------- machine

U64 == 2 ^ WordBits

U128 == 2 ^ (2 * WordBits)

\* The outcome of a panic!, an expect on None or a failed overflow check.
Panic == 0 - 1

\* Option::None, of degree() and constant_term().
None == 0 - 2

IsPrime(p) == p >= 2 /\ \A d \in 2..(p - 1) : p % d # 0

\* The least prime above half the word: a modulus whose doubled
\* representatives do not fit the word.
HighPrime == CHOOSE p \in (U64 \div 2)..(U64 - 1) :
                 IsPrime(p) /\ \A q \in (U64 \div 2)..(p - 1) : ~IsPrime(q)

Moduli == {p \in 2..(U64 - 1) : IsPrime(p) /\ (p <= SmallPrimeMax \/ p = HighPrime)}

\* The value a u64 operation stores, given its exact mathematical result x.
u64_checked(x) ==
    IF x >= 0 /\ x < U64 THEN x
    ELSE IF overflow_checks THEN Panic
    ELSE (x + U64) % U64

\* ------------------------------------------------------------------ Fp

\* Fp::new
Fp_new(value) == value % P

\* RingBase::zero, RingBase::one
Fp_zero == 0

Fp_one == 1

\* `self.0 + other.0` of Add::add, before it is stored in a u64.
Fp_add_raw(a, b) == a + b

Fp_add_noreduce(a, b) ==
    IF a = Panic \/ b = Panic THEN Panic ELSE u64_checked(Fp_add_raw(a, b))

\* Add::add
Fp_add(a, b) ==
    IF a = Panic \/ b = Panic THEN Panic
    ELSE LET sum == u64_checked(Fp_add_raw(a, b))
         IN  IF sum = Panic THEN Panic
             ELSE IF sum >= P THEN u64_checked(sum - P) ELSE sum

\* `self.0 + P` of Sub::sub (taken only when self.0 < other.0).
Fp_sub_raw(a, b) == IF a >= b THEN a ELSE a + P

\* Sub::sub
Fp_sub(a, b) ==
    IF a = Panic \/ b = Panic THEN Panic
    ELSE IF a >= b THEN u64_checked(a - b)
    ELSE LET lifted == u64_checked(Fp_sub_raw(a, b))
         IN  IF lifted = Panic THEN Panic ELSE u64_checked(lifted - b)

\* Mul::mul: the product is taken in u128, reduced, and cast back to u64.
Fp_mul(a, b) ==
    IF a = Panic \/ b = Panic THEN Panic
    ELSE LET prod == (a * b) % U128
         IN  (prod % P) % U64

RECURSIVE pow_loop(_, _, _)
pow_loop(base, result, exp) ==
    IF exp = 0 THEN result
    ELSE pow_loop(Fp_mul(base, base),
                  IF exp % 2 = 1 THEN Fp_mul(result, base) ELSE result,
                  exp \div 2)

\* Fp::pow, square and multiply
Fp_pow(a, exp) == IF a = Panic THEN Panic ELSE pow_loop(a, Fp_one, exp)

Fp_inverse_unchecked(a) == Fp_pow(a, P - 2)

Fp_inverse_exp_off_by_one(a) == IF a = Panic \/ a = 0 THEN Panic ELSE Fp_pow(a, P - 1)

\* FieldBase::inverse
Fp_inverse(a) == IF a = Panic \/ a = 0 THEN Panic ELSE Fp_pow(a, P - 2)

\* Div::div
Fp_div(a, b) == Fp_mul(a, Fp_inverse(b))

\* ---------------------------------------------------------- Polynomial
\* A polynomial is its coefficient vector: index i holds the coefficient of
\* x^(i-1).  A polynomial operation that panicked is PolyPanic.

PolyPanic == <<Panic>>

Panicked(p) == \E i \in DOMAIN p : p[i] = Panic

Zeros(n) == [i \in 1..n |-> Fp_zero]

\* Polynomial::zero, RingBase::zero / order_zero
Poly_zero == <<>>

\* RingBase::one
Poly_one == <<Fp_one>>

\* Polynomial::normalize: pop while the last coefficient is zero.
RECURSIVE normalize(_)
normalize(coeffs) ==
    IF coeffs = <<>> THEN coeffs
    ELSE IF coeffs[Len(coeffs)] # Fp_zero THEN coeffs
    ELSE normalize(SubSeq(coeffs, 1, Len(coeffs) - 1))

from_coeffs_normalizing(coeffs) == normalize(coeffs)

\* Polynomial::from_coeffs: the vector is stored as given.
from_coeffs(coeffs) == coeffs

\* Polynomial::degree
degree(p) == IF p = <<>> THEN None ELSE Len(p) - 1

\* Polynomial::evaluate: the fold over the reversed coefficients,
\* acc * x + coeff, from index i down.
RECURSIVE evaluate_fold(_, _, _, _)
evaluate_fold(p, x, i, a) ==
    IF i = 0 THEN a
    ELSE evaluate_fold(p, x, i - 1, Fp_add(Fp_mul(a, x), p[i]))

evaluate(p, x) ==
    IF Panicked(p) \/ x = Panic THEN Panic
    ELSE evaluate_fold(p, x, Len(p), Fp_zero)

\* Vec::resize(n, T::zero()) on a shorter vector.
resize(coeffs, n) == coeffs \o Zeros(n - Len(coeffs))

\* The result of an operation on p and q, or PolyPanic when an operand had
\* panicked or a coefficient operation panicked.
Checked(p, q, r) ==
    IF Panicked(p) \/ Panicked(q) \/ Panicked(r) THEN PolyPanic ELSE r

\* Neg for Fp<P>: the additive inverse in the field.
Fp_neg(a) == Fp_sub(Fp_zero, a)

\* Neg for Polynomial<T> and for &Polynomial<T>: each coefficient negated.
Poly_neg(p) == Checked(p, p, [i \in DOMAIN p |-> Fp_neg(p[i])])

\* AddAssign (by value and by reference)
Poly_add_assign(self, rhs) ==
    LET grown == IF Len(rhs) > Len(self) THEN resize(self, Len(rhs)) ELSE self
    IN  Checked(self, rhs,
            normalize([i \in DOMAIN grown |->
                IF i <= Len(rhs) THEN Fp_add(grown[i], rhs[i]) ELSE grown[i]]))

\* The subtraction with self left at its length.
Poly_sub_assign_nopad(self, rhs) ==
    Checked(self, rhs,
        normalize([i \in DOMAIN self |->
            IF i <= Len(rhs) THEN Fp_sub(self[i], rhs[i]) ELSE self[i]]))

\* SubAssign (by value and by reference)
Poly_sub_assign(self, rhs) ==
    LET grown == IF Len(rhs) > Len(self) THEN resize(self, Len(rhs)) ELSE self
    IN  Checked(self, rhs,
            normalize([i \in DOMAIN grown |->
                IF i <= Len(rhs) THEN Fp_sub(grown[i], rhs[i]) ELSE grown[i]]))

\* new_coeffs[k] after the terms self[1..i] * rhs[k - i + 1] were added to it,
\* in the order of the two nested loops.
RECURSIVE conv_sum(_, _, _, _)
conv_sum(self, rhs, k, i) ==
    IF i = 0 THEN Fp_zero
    ELSE LET prev == conv_sum(self, rhs, k, i - 1)
             j == k - i + 1
         IN  IF j \in DOMAIN rhs
             THEN Fp_add(prev, Fp_mul(self[i], rhs[j]))
             ELSE prev

\* MulAssign (by value and by reference)
Poly_mul_assign(self, rhs) ==
    IF Panicked(self) \/ Panicked(rhs) THEN PolyPanic
    ELSE IF degree(self) = None \/ degree(rhs) = None THEN Poly_zero
    ELSE Checked(self, rhs,
            normalize([k \in 1..(Len(self) + Len(rhs) - 1) |->
                conv_sum(self, rhs, k, Len(self))]))

\* Add: P + Q, &P + &Q, P + &Q are self += rhs; &P + Q is rhs += self.
Poly_add(p, q, form) ==
    IF form = "direct" THEN Poly_add_assign(p, q) ELSE Poly_add_assign(q, p)

\* Sub: P - Q, &P - &Q, P - &Q are self -= rhs; &P - Q is -(rhs - self).
Poly_sub(p, q, form) ==
    IF form = "direct" THEN Poly_sub_assign(p, q)
    ELSE Poly_neg(Poly_sub_assign(q, p))

\* Mul: P * Q, &P * &Q, P * &Q are self *= rhs; &P * Q is rhs *= self.
Poly_mul(p, q, form) ==
    IF form = "direct" THEN Poly_mul_assign(p, q) ELSE Poly_mul_assign(q, p)

\* MulAssign<T> and Mul<T>: every coefficient times the scalar.
Poly_mul_scalar(self, rhs) ==
    IF rhs = Panic THEN PolyPanic
    ELSE Checked(self, self, normalize([i \in DOMAIN self |-> Fp_mul(self[i], rhs)]))

\* DivAssign<T> and Div<T>: every coefficient divided by the scalar.
Poly_div_scalar(self, rhs) ==
    IF rhs = Panic THEN PolyPanic
    ELSE Checked(self, self, normalize([i \in DOMAIN self |-> Fp_div(self[i], rhs)]))

\* Add<T>: the scalar is added to the constant term.
Poly_add_scalar(self, rhs) ==
    IF rhs = Panic THEN PolyPanic
    ELSE IF self = <<>> THEN Checked(self, self, normalize(<<rhs>>))
    ELSE Checked(self, self, normalize([self EXCEPT ![1] = Fp_add(self[1], rhs)]))

\* Sub<T>: the scalar is subtracted from the constant term.
Poly_sub_scalar(self, rhs) ==
    IF rhs = Panic THEN PolyPanic
    ELSE LET grown == IF self = <<>> THEN <<Fp_zero>> ELSE self
         IN  Checked(self, self, normalize([grown EXCEPT ![1] = Fp_sub(grown[1], rhs)]))

\* Polynomial::single_root: the polynomial x - x0.
single_root(x0) == <<Fp_neg(x0), Fp_one>>

\* Polynomial::constant_term: the coefficient of index 0, None for zero().
constant_term(p) == IF p = <<>> THEN None ELSE p[1]

\* ------------------------------------------------- Lagrange interpolation
\* A point is <<x, y>>.

\* Basis polynomial i with no index skipped.
RECURSIVE lagrange_basis_noskip(_, _, _)
lagrange_basis_noskip(pts, i, j) ==
    IF j = 0 THEN [poly_i |-> Poly_one, denom |-> Fp_one]
    ELSE LET prev == lagrange_basis_noskip(pts, i, j - 1)
         IN  [poly_i |-> Poly_mul_assign(prev.poly_i, single_root(pts[j][1])),
              denom |-> Fp_mul(prev.denom, Fp_sub(pts[i][1], pts[j][1]))]

\* poly_i and denom of the product loop of basis polynomial i, after the
\* points 1..j were visited.
RECURSIVE lagrange_basis(_, _, _)
lagrange_basis(pts, i, j) ==
    IF j = 0 THEN [poly_i |-> Poly_one, denom |-> Fp_one]
    ELSE LET prev == lagrange_basis(pts, i, j - 1)
         IN  IF i = j THEN prev
             ELSE [poly_i |-> Poly_mul_assign(prev.poly_i, single_root(pts[j][1])),
                   denom |-> Fp_mul(prev.denom, Fp_sub(pts[i][1], pts[j][1]))]

\* poly of the outer loop after the basis polynomials 1..i were added.
RECURSIVE lagrange_sum(_, _)
lagrange_sum(pts, i) ==
    IF i = 0 THEN Poly_zero
    ELSE LET basis == lagrange_basis(pts, i, Len(pts))
         IN  Poly_add_assign(lagrange_sum(pts, i - 1),
                 Poly_mul_scalar(basis.poly_i, Fp_div(pts[i][2], basis.denom)))

\* lagrange_interpolation
lagrange_interpolation(pts) == lagrange_sum(pts, Len(pts))

\* ------------------------------------------------------- secret sharing
\* A share is [x |-> , y |-> ].

\* Share::into_pair
into_pair(share) == <<share.x, share.y>>

\* The share generation of split_secret: the polynomial evaluated at
\* Fp::new(1), ..., Fp::new(n).
make_shares(p, n) ==
    [i \in 1..n |-> [x |-> Fp_new(i), y |-> evaluate(p, Fp_new(i))]]

\* reconstruct_secret: the constant term of the interpolated polynomial,
\* unwrapped with expect.
reconstruct_secret(shs) ==
    LET p == lagrange_interpolation([i \in DOMAIN shs |-> into_pair(shs[i])])
    IN  IF Panicked(p) THEN Panic
        ELSE IF constant_term(p) = None THEN Panic
        ELSE constant_term(p)

\* ------------------------------------------------------------- SpecFp
\* A caller of the field: it holds an element and applies the public
\* operations to it in any order; the other operand of a binary operation is
\* the element itself or one built by Fp::new.

NoOp == [op |-> "none", a |-> 0, b |-> 0, r |-> 0, raw |-> 0]

NoPolyOp == [op |-> "none", form |-> "direct", a |-> <<>>, s |-> 0, r |-> <<>>]

\* The variables of the other specifications, at rest.
FpIdle == acc = Fp_zero /\ last = NoOp

PolyIdle == pacc = <<>> /\ popd = <<>> /\ plast = NoPolyOp

LagrangeIdle == points = <<>> /\ interp = <<>> /\ lstat = "idle"

ShamirIdle ==
    /\ spc = "start"
    /\ secret = 0
    /\ share_threshold = 0
    /\ number_of_shares = 0
    /\ poly = <<>>
    /\ shares = <<>>
    /\ picked = <<>>
    /\ recovered = 0

Running == last.r # Panic

\* The caller keeps the result r, unless the operation panicked.
Store(r) == IF r = Panic THEN acc ELSE r

Operands == {acc} \cup {Fp_new(v) : v \in (0..MaxOperand) \cup {P - 1, U64 - 1}}

InitFp ==
    /\ P \in Moduli
    /\ overflow_checks \in BOOLEAN
    /\ acc = Fp_zero
    /\ last = NoOp
    /\ pacc = <<>>
    /\ popd = <<>>
    /\ plast = NoPolyOp
    /\ LagrangeIdle
    /\ ShamirIdle

FpNew ==
    /\ Running
    /\ \E value \in 0..(U64 - 1) :
          /\ acc' = Store(Fp_new(value))
          /\ last' = [op |-> "new", a |-> value, b |-> 0, r |-> Fp_new(value), raw |-> value]
    /\ UNCHANGED <<P, overflow_checks, polyVars, lagrangeVars, shamirVars>>

FpZeroOne ==
    /\ Running
    /\ \E r \in {Fp_zero, Fp_one} :
          /\ acc' = Store(r)
          /\ last' = [op |-> "unit", a |-> 0, b |-> 0, r |-> r, raw |-> r]
    /\ UNCHANGED <<P, overflow_checks, polyVars, lagrangeVars, shamirVars>>

\* a + b and &a + &b
FpAdd ==
    /\ Running
    /\ \E b \in Operands :
          LET a == acc  r == Fp_add(a, b)
          IN  /\ acc' = Store(r)
              /\ last' = [op |-> "add", a |-> a, b |-> b, r |-> r, raw |-> Fp_add_raw(a, b)]
    /\ UNCHANGED <<P, overflow_checks, polyVars, lagrangeVars, shamirVars>>

\* a - b and &a - &b
FpSub ==
    /\ Running
    /\ \E b \in Operands :
          LET a == acc  r == Fp_sub(a, b)
          IN  /\ acc' = Store(r)
              /\ last' = [op |-> "sub", a |-> a, b |-> b, r |-> r, raw |-> Fp_sub_raw(a, b)]
    /\ UNCHANGED <<P, overflow_checks, polyVars, lagrangeVars, shamirVars>>

\* a * b and &a * &b
FpMul ==
    /\ Running
    /\ \E b \in Operands :
          LET a == acc  r == Fp_mul(a, b)
          IN  /\ acc' = Store(r)
              /\ last' = [op |-> "mul", a |-> a, b |-> b, r |-> r, raw |-> a * b]
    /\ UNCHANGED <<P, overflow_checks, polyVars, lagrangeVars, shamirVars>>

\* a / b and &a / &b
FpDiv ==
    /\ Running
    /\ \E b \in Operands :
          LET a == acc  r == Fp_div(a, b)
          IN  /\ acc' = Store(r)
              /\ last' = [op |-> "div", a |-> a, b |-> b, r |-> r, raw |-> 0]
    /\ UNCHANGED <<P, overflow_checks, polyVars, lagrangeVars, shamirVars>>

\* a += b, a -= b, a *= b, a /= b (by value and by reference):
\* *self = (*self).op(other)
FpAssign ==
    /\ Running
    /\ \E b \in Operands, op \in {"add", "sub", "mul", "div"} :
          LET a == acc
              r == CASE op = "add" -> Fp_add(a, b)
                     [] op = "sub" -> Fp_sub(a, b)
                     [] op = "mul" -> Fp_mul(a, b)
                     [] op = "div" -> Fp_div(a, b)
              raw == CASE op = "add" -> Fp_add_raw(a, b)
                       [] op = "sub" -> Fp_sub_raw(a, b)
                       [] op = "mul" -> a * b
                       [] op = "div" -> 0
          IN  /\ acc' = Store(r)
              /\ last' = [op |-> op \o "_assign", a |-> a, b |-> b, r |-> r, raw |-> raw]
    /\ UNCHANGED <<P, overflow_checks, polyVars, lagrangeVars, shamirVars>>

FpPow ==
    /\ Running
    /\ \E exp \in 0..MaxExp :
          LET a == acc  r == Fp_pow(a, exp)
          IN  /\ acc' = Store(r)
              /\ last' = [op |-> "pow", a |-> a, b |-> exp, r |-> r, raw |-> 0]
    /\ UNCHANGED <<P, overflow_checks, polyVars, lagrangeVars, shamirVars>>

FpInverse ==
    /\ Running
    /\ LET a == acc  r == Fp_inverse(a)
       IN  /\ acc' = Store(r)
           /\ last' = [op |-> "inverse", a |-> a, b |-> 0, r |-> r, raw |-> 0]
    /\ UNCHANGED <<P, overflow_checks, polyVars, lagrangeVars, shamirVars>>

NextFp ==
    \/ FpNew
    \/ FpZeroOne
    \/ FpAdd
    \/ FpSub
    \/ FpMul
    \/ FpDiv
    \/ FpAssign
    \/ FpPow
    \/ FpInverse

SpecFp == InitFp /\ [][NextFp]_vars

\* ----------------------------------------------------------- SpecPoly
\* A caller of Polynomial<Fp<P>>: it builds polynomials with from_coeffs,
\* applies an operation to the two it holds, binds the result and goes on.

PolyModuli == {p \in 2..PolyPrimeMax : IsPrime(p)}

\* The modulus of the test suite and of the playground: type F17 = Fp<17>.
TestPrime == 17

\* The coefficient lists the test suite and the playground hand to from_coeffs.
TestLists == {<<1, 1>>, <<2, 2, 2>>, <<15, 16, 16>>, <<2, 1, 1>>,
              <<11, 0, 3>>, <<13, 5>>}

ShamirModuli == {p \in 2..ShamirPrimeMax : IsPrime(p)}

\* Seq-of-field-elements of length n.
Lists(n) == [1..n -> 0..(P - 1)]

\* Over the small moduli the caller builds every list up to MaxLen; over
\* Fp<17> it builds the lists of the test suite and of the playground.
CoeffLists == IF P = TestPrime THEN TestLists ELSE UNION {Lists(n) : n \in 0..MaxLen}

\* Over Fp<17> the caller is the test suite: each operation is applied to
\* polynomials just built by from_coeffs (or to Polynomial::zero()).
Fresh == P = TestPrime => {pacc, popd} \subseteq (TestLists \cup {Poly_zero})

Forms == {"direct", "swapped"}

\* The caller is between operations: the last result, if any, was bound.
Bound == plast.op \in {"none", "from_coeffs", "bind"}

\* Every modulus here is below half the word, so no u64 operation overflows
\* and the build profile changes nothing: one profile is explored.
InitPoly ==
    /\ P \in PolyModuli \cup {TestPrime}
    /\ overflow_checks = TRUE
    /\ acc = Fp_zero
    /\ last = NoOp
    /\ pacc = Poly_zero
    /\ popd = Poly_zero
    /\ plast = NoPolyOp
    /\ LagrangeIdle
    /\ ShamirIdle

\* let p = Polynomial::from_coeffs(coeffs), for either polynomial
PolyFromCoeffs ==
    /\ Bound
    /\ \E coeffs \in CoeffLists, d \in {"self", "rhs"} :
          LET r == from_coeffs(coeffs)
          IN  /\ pacc' = IF d = "self" THEN r ELSE pacc
              /\ popd' = IF d = "rhs" THEN r ELSE popd
              /\ plast' = [op |-> "from_coeffs", form |-> "direct",
                           a |-> coeffs, s |-> 0, r |-> r]
    /\ UNCHANGED <<P, overflow_checks, fpVars, lagrangeVars, shamirVars>>

\* The operation's result replaces self, unless it panicked.
PolyResult(op, form, s, r) ==
    /\ Fresh
    /\ pacc' = IF Panicked(r) THEN pacc ELSE r
    /\ plast' = [op |-> op, form |-> form, a |-> pacc, s |-> s, r |-> r]
    /\ UNCHANGED <<P, overflow_checks, fpVars, popd, lagrangeVars, shamirVars>>

PolyNeg ==
    /\ Bound
    /\ PolyResult("neg", "direct", 0, Poly_neg(pacc))

PolyAdd ==
    /\ Bound
    /\ \E form \in Forms : PolyResult("add", form, 0, Poly_add(pacc, popd, form))

PolySub ==
    /\ Bound
    /\ \E form \in Forms : PolyResult("sub", form, 0, Poly_sub(pacc, popd, form))

PolyMul ==
    /\ Bound
    /\ Len(pacc) + Len(popd) <= MaxLen + 1 \/ P = TestPrime
    /\ \E form \in Forms : PolyResult("mul", form, 0, Poly_mul(pacc, popd, form))

PolyAddScalar ==
    /\ Bound
    /\ \E s \in 0..(P - 1) : PolyResult("add_scalar", "direct", s, Poly_add_scalar(pacc, s))

PolySubScalar ==
    /\ Bound
    /\ \E s \in 0..(P - 1) : PolyResult("sub_scalar", "direct", s, Poly_sub_scalar(pacc, s))

PolyMulScalar ==
    /\ Bound
    /\ \E s \in 0..(P - 1) : PolyResult("mul_scalar", "direct", s, Poly_mul_scalar(pacc, s))

PolyDivScalar ==
    /\ Bound
    /\ \E s \in 0..(P - 1) : PolyResult("div_scalar", "direct", s, Poly_div_scalar(pacc, s))

\* The caller binds the result and goes on with it (a panic ends the caller).
PolyBind ==
    /\ ~Bound
    /\ ~Panicked(plast.r)
    /\ plast' = [NoPolyOp EXCEPT !.op = "bind"]
    /\ UNCHANGED <<P, overflow_checks, fpVars, pacc, popd, lagrangeVars, shamirVars>>

NextPoly ==
    \/ PolyFromCoeffs
    \/ PolyNeg
    \/ PolyAdd
    \/ PolySub
    \/ PolyMul
    \/ PolyAddScalar
    \/ PolySubScalar
    \/ PolyMulScalar
    \/ PolyDivScalar
    \/ PolyBind

SpecPoly == InitPoly /\ [][NextPoly]_vars

\* ------------------------------------------------ claims on SpecPoly

Normalized(p) == p = <<>> \/ p[Len(p)] # Fp_zero

\* The list c with its trailing zeros stripped.
RECURSIVE Stripped(_)
Stripped(c) ==
    IF c = <<>> \/ c[Len(c)] # 0 THEN c ELSE Stripped(SubSeq(c, 1, Len(c) - 1))

\* C9: from_coeffs normalizes: the polynomial built from a list equals (==)
\* the one built from the list with its trailing zeros stripped, and an
\* all-zero list gives Polynomial::zero(), of degree None.
C9_FromCoeffsNormalizes ==
    plast.op = "from_coeffs" =>
        /\ plast.r = from_coeffs(Stripped(plast.a))
        /\ (\A i \in DOMAIN plast.a : plast.a[i] = 0) =>
               (plast.r = Poly_zero /\ degree(plast.r) = None)

\* C10: the result of every polynomial arithmetic operation is normalized:
\* its coefficient vector is empty or ends in a nonzero coefficient.
C10_ResultsNormalized ==
    (plast.op \in {"neg", "add", "sub", "mul", "add_scalar", "sub_scalar",
                   "mul_scalar", "div_scalar"} /\ ~Panicked(plast.r)) =>
        Normalized(plast.r)

\* The two operands of the last binary operation, in the order written.
LeftOperand == plast.a

RightOperand == popd

\* The coefficient of x^(k-1), zero beyond the vector.
Coeff(p, k) == IF k \in DOMAIN p THEN p[k] ELSE 0

IsZeroPoly(p) == \A i \in DOMAIN p : p[i] = 0

\* The sum of a[i] * b[j] over the first n indices i, with i + j = k
\* (i - 1 + j - 1 = k - 1 on the powers), in exact integers.
RECURSIVE ConvolutionSum(_, _, _, _)
ConvolutionSum(a, b, k, n) ==
    IF n = 0 THEN 0
    ELSE ConvolutionSum(a, b, k, n - 1) + a[n] * Coeff(b, k - n + 1)

\* C11: multiplication is the naive convolution: the coefficient of a * b at
\* every index is the sum of a[i] * b[j] over i + j = k reduced mod P, the
\* product of two nonzero polynomials has length len_a + len_b - 1, the
\* product with a zero polynomial is the empty polynomial, and over Fp<17>
\* from_coeffs([11,0,3]) * from_coeffs([13,5]) has coefficients [7,4,5,15].
C11_MulIsConvolution ==
    (plast.op = "mul" /\ ~Panicked(plast.r)) =>
        LET a == LeftOperand
            b == RightOperand
            r == plast.r
        IN  /\ \A k \in 1..(Len(a) + Len(b)) :
                   Coeff(r, k) = ConvolutionSum(a, b, k, Len(a)) % P
            /\ (~IsZeroPoly(a) /\ ~IsZeroPoly(b)) => Len(r) = Len(a) + Len(b) - 1
            /\ (IsZeroPoly(a) \/ IsZeroPoly(b)) => r = Poly_zero
            /\ (P = TestPrime /\ a = <<11, 0, 3>> /\ b = <<13, 5>>) =>
                   r = <<7, 4, 5, 15>>

C13_ScalarDivisionByZeroFails ==
    (plast.op = "div_scalar" /\ plast.s = Fp_zero) =>
        (Panicked(plast.r) /\ pacc = plast.a)

\* ------------------------------------------------------- SpecLagrange
\* A caller of lagrange_interpolation: it collects points, any few of them or
\* more with pairwise distinct x, and hands the list over.

DistinctX(pts) == \A i \in DOMAIN pts, j \in DOMAIN pts : i # j => pts[i][1] # pts[j][1]

\* The lists the caller may hand over.
Allowed(pts) ==
    /\ Len(pts) <= MaxPoints
    /\ Len(pts) <= MaxAnyPoints \/ DistinctX(pts)

\* Every modulus here is below half the word, so no u64 operation overflows
\* and the build profile changes nothing: one profile is explored.
InitLagrange ==
    /\ P \in ShamirModuli
    /\ overflow_checks = TRUE
    /\ FpIdle
    /\ PolyIdle
    /\ LagrangeIdle
    /\ ShamirIdle

\* The caller adds a point to its list.
LagrangeAddPoint ==
    /\ lstat = "idle"
    /\ \E x \in 0..(P - 1), y \in 0..(P - 1) :
          /\ Allowed(Append(points, <<x, y>>))
          /\ points' = Append(points, <<x, y>>)
    /\ UNCHANGED <<P, overflow_checks, fpVars, polyVars, shamirVars, interp, lstat>>

LagrangeInterpolate ==
    /\ lstat = "idle"
    /\ interp' = lagrange_interpolation(points)
    /\ lstat' = "done"
    /\ UNCHANGED <<P, overflow_checks, fpVars, polyVars, shamirVars, points>>

\* The caller wraps its points into shares and hands them to
\* reconstruct_secret.
LagrangeReconstruct ==
    /\ lstat = "idle"
    /\ LET shs == [i \in DOMAIN points |-> [x |-> points[i][1], y |-> points[i][2]]]
       IN  /\ picked' = shs
           /\ recovered' = reconstruct_secret(shs)
    /\ lstat' = "reconstructed"
    /\ UNCHANGED <<P, overflow_checks, fpVars, polyVars, points, interp,
                   spc, secret, share_threshold, number_of_shares, poly, shares>>

NextLagrange ==
    \/ LagrangeAddPoint
    \/ LagrangeInterpolate
    \/ LagrangeReconstruct

SpecLagrange == InitLagrange /\ [][NextLagrange]_vars

\* ---------------------------------------------- claims on SpecLagrange

C16_ReconstructFailsExactly ==
    lstat = "reconstructed" =>
        /\ (points = <<>> \/ ~DistinctX(points)) => recovered = Panic
        /\ (points # <<>> /\ DistinctX(points)) =>
               /\ recovered # Panic
               /\ recovered = evaluate(lagrange_interpolation(points), Fp_zero)

\* ---------------------------------------------------------------- Spec
\* The secret-sharing program: split_secret (the parameter check, the loop
\* that draws the polynomial, the shares), then reconstruct_secret on some of
\* the shares.

\* The indices of the shares handed on, in ascending order.
RECURSIVE Ascending(_)
Ascending(S) ==
    IF S = {} THEN <<>>
    ELSE LET m == CHOOSE x \in S : \A y \in S : y <= x
         IN  Append(Ascending(S \ {m}), m)

Init ==
    /\ P \in ShamirModuli
    /\ overflow_checks \in BOOLEAN
    /\ FpIdle
    /\ PolyIdle
    /\ LagrangeIdle
    /\ ShamirIdle

\* split_secret is called: the check of the threshold against the share count.
SplitStart ==
    /\ spc = "start"
    /\ \E s \in 0..(P - 1), t \in 0..(MaxShares + 1), n \in 0..MaxShares :
          /\ secret' = s
          /\ share_threshold' = t
          /\ number_of_shares' = n
          /\ spc' = IF t > n THEN "panicked" ELSE "loop"
    /\ UNCHANGED <<P, overflow_checks, fpVars, polyVars, lagrangeVars,
                   poly, shares, picked, recovered>>

\* One iteration of the loop: share_threshold - 1 coefficients are drawn
\* (each Fp::new of a random u64), the polynomial is built, and the loop
\* breaks when its degree is share_threshold - 1.  With share_threshold = 0
\* the subtraction overflows usize: a panic with overflow checks, and without
\* them a range of usize::MAX draws, whose collection panics on its capacity.
SplitDraw ==
    /\ spc = "loop"
    /\ IF share_threshold = 0
       THEN /\ spc' = "panicked"
            /\ poly' = poly
       ELSE \E draws \in Lists(share_threshold - 1) :
               LET p == from_coeffs(<<secret>> \o draws)
               IN  /\ poly' = p
                   /\ spc' = IF degree(p) = None THEN "panicked"
                             ELSE IF degree(p) = share_threshold - 1 THEN "shares"
                             ELSE "loop"
    /\ UNCHANGED <<P, overflow_checks, fpVars, polyVars, lagrangeVars,
                   secret, share_threshold, number_of_shares, shares, picked, recovered>>

\* The shares are generated and split_secret returns them.
SplitShares ==
    /\ spc = "shares"
    /\ shares' = make_shares(poly, number_of_shares)
    /\ spc' = IF Panicked([i \in 1..number_of_shares |->
                               make_shares(poly, number_of_shares)[i].y])
              THEN "panicked" ELSE "split"
    /\ UNCHANGED <<P, overflow_checks, fpVars, polyVars, lagrangeVars,
                   secret, share_threshold, number_of_shares, poly, picked, recovered>>

\* Some of the shares are selected.
PickShares ==
    /\ spc = "split"
    /\ \E S \in SUBSET (1..number_of_shares) :
          picked' = [k \in 1..Cardinality(S) |-> shares[Ascending(S)[k]]]
    /\ spc' = "picked"
    /\ UNCHANGED <<P, overflow_checks, fpVars, polyVars, lagrangeVars,
                   secret, share_threshold, number_of_shares, poly, shares, recovered>>

\* reconstruct_secret on the selected shares.
Reconstruct ==
    /\ spc = "picked"
    /\ recovered' = reconstruct_secret(picked)
    /\ spc' = "done"
    /\ UNCHANGED <<P, overflow_checks, fpVars, polyVars, lagrangeVars,
                   secret, share_threshold, number_of_shares, poly, shares, picked>>

Next ==
    \/ SplitStart
    \/ SplitDraw
    \/ SplitShares
    \/ PickShares
    \/ Reconstruct

Spec == Init /\ [][Next]_vars

\* ---------------------------------------------------- claims on Spec

\* C1: reconstruct_secret on any share_threshold of the shares split_secret
\* returned gives back the secret.  Stated where the sharing is defined, for
\* 1 <= share_threshold <= number_of_shares < P, so that the abscissas
\* 1..number_of_shares are distinct and nonzero in Fp<P>.
C1_ReconstructsSecret ==
    (/\ spc = "done"
     /\ share_threshold >= 1
     /\ number_of_shares < P
     /\ Len(picked) = share_threshold) => recovered = secret

\* The draws after which the loop of split_secret breaks, for secret s and
\* threshold t.
AcceptedDraws(s, t) ==
    {draws \in Lists(t - 1) : degree(from_coeffs(<<s>> \o draws)) = t - 1}

Returned == spc \in {"split", "picked", "done"}

\* C14: none of the shares split_secret returns has the abscissa zero,
\* whatever the modulus and the share count, number_of_shares >= P included.
C14_NoShareAtZero ==
    Returned => \A i \in DOMAIN shares : shares[i].x # Fp_zero

\* C15: for share_threshold >= 2 the polynomial the shares are evaluated
\* from has the secret as constant term and degree exactly
\* share_threshold - 1: its coefficient of x^(share_threshold - 1) is nonzero.
C15_DegreeExactlyThresholdMinusOne ==
    (share_threshold >= 2 /\ (spc = "shares" \/ Returned)) =>
        /\ poly[1] = secret
        /\ Len(poly) = share_threshold
        /\ poly[share_threshold] # Fp_zero

\* C17: split_secret panics when share_threshold > number_of_shares and
\* under no other parameters: for share_threshold <= number_of_shares, zero
\* included, it does not panic and returns exactly number_of_shares shares.
C17_OnlyThresholdAboveCountFails ==
    /\ (spc # "start" /\ share_threshold > number_of_shares) => spc = "panicked"
    /\ (spc # "start" /\ share_threshold <= number_of_shares) => spc # "panicked"
    /\ Returned => Len(shares) = number_of_shares

\* C18: with share_threshold >= 2 and a randomness source whose every draw
\* reduces to zero, split_secret never leaves its loop: it leaves the loop
\* only after an iteration in which some drawn coefficient was nonzero.
C18_DegenerateSourceNeverReturns ==
    (share_threshold >= 2 /\ (spc = "shares" \/ Returned)) =>
        \E i \in 2..Len(poly) : poly[i] # Fp_zero

\* ------------------------------------------------- claims on SpecFp

\* C4: every Fp<P> value the caller holds or is handed back is a reduced
\* representative, 0 <= value < P, whatever sequence of new, zero, one, add,
\* sub, mul, div, pow, inverse and compound assignments produced it.
C4_ValueReduced ==
    /\ acc \in 0..(P - 1)
    /\ (last.op # "none" /\ last.r # Panic) => last.r \in 0..(P - 1)

\* C4 witness: a subtraction that had to add P, after earlier operations.
C4_Witness ==
    /\ last.op = "sub_assign"
    /\ last.a < last.b
    /\ last.a > 0
    /\ acc = last.r
    /\ acc < P

\* C5: add, sub and mul return the residue of the exact sum, difference and
\* product modulo P, for every prime P and all reduced operands.
C5_MatchesWideArithmetic ==
    /\ last.op = "add" => last.r = (last.a + last.b) % P
    /\ last.op = "sub" => last.r = (last.a + P - last.b) % P
    /\ last.op = "mul" => last.r = (last.a * last.b) % P

\* C6: no intermediate of add or sub leaves the unsigned word: the raw sum
\* a + b of add and the sum a + P of sub stay below 2^WordBits.
C6_NoIntermediateOverflow ==
    last.op \in {"add", "sub", "add_assign", "sub_assign"} => last.raw < U64

\* C7: for every nonzero a, inverse returns a value and a * a.inverse() is one.
C7_InverseIsInverse ==
    (last.op = "inverse" /\ last.a # 0) =>
        /\ last.r # Panic
        /\ Fp_mul(last.a, last.r) = Fp_one

\* C7 witness: the inverse of P - 1 in a field of more than two elements.
C7_Witness ==
    /\ last.op = "inverse"
    /\ P > 2
    /\ last.a = P - 1
    /\ last.r = P - 1

\* C8: inverting zero panics and hands back no value, directly and through
\* a / 0 and a /= 0, for every a, zero included.
C8_ZeroInversePanics ==
    /\ (last.op = "inverse" /\ last.a = 0) => (last.r = Panic /\ acc = last.a)
    /\ (last.op \in {"div", "div_assign"} /\ last.b = 0) =>
           (last.r = Panic /\ acc = last.a)

\* C8 witness: 0 /= 0 panicked.
C8_Witness ==
    /\ last.op = "div_assign"
    /\ last.a = 0
    /\ last.b = 0
    /\ last.r = Panic

====
